---- MODULE Spec2Model ----
(***************************************************************************)
(* Model of the voter ingestion DAG (airflow/dags/voter_ingestion_dag.py)  *)
(* and its helpers (airflow/dags/utils/helpers.py).                        *)
(*                                                                         *)
(* One DAG run at a time (max_active_runs=1) walks the task graph          *)
(*   check_csv_file >> create_raw_tables >> check_for_new_data             *)
(*       >> [no_new_data, load_csv_to_raw]                                 *)
(*   load_csv_to_raw >> trigger_dbt_run >> update_metadata >> finish       *)
(*   no_new_data >> finish                                                 *)
(* against two persistent DuckDB tables, raw.voters and                    *)
(* metadata.voter_ingestion_audit, and a CSV file the environment owns.    *)
(*                                                                         *)
(* A task attempt that raises leaves no persisted effect (every statement  *)
(* is its own transaction), so the attempts Airflow retries (retries=1)    *)
(* are stuttering steps; a task "fails" here when its last attempt raised. *)
(***************************************************************************)
EXTENDS Integers, Sequences, FiniteSets, TLC

\* ---------------------------------------------------------------- bounds
MaxRuns == 3      \* DAG runs per behaviour
MaxId   == 2      \* voter ids are 1..MaxId
MaxVal  == 2      \* the other columns of a voter row, folded into one value
MaxRows == 2      \* data lines of a CSV file
MaxChunk == 3     \* chunk sizes of a helper call are 1..MaxChunk lines
MaxEntries == 2   \* rows of the metadata table handed to a helper call

\* ------------------------------------------------------------- CSV files
\* Python's None (helpers.py: "return None").  Every digest is >= 1.
None == 0

Header  == [kind |-> "header", id |-> 0, val |-> 0]
BadLine == [kind |-> "bad", id |-> 0, val |-> 0]
DataLines == {[kind |-> "row", id |-> i, val |-> v] : i \in 1..MaxId, v \in 1..MaxVal}

\* Sequences over S of length at most n.
SeqUpTo(S, n) == UNION {[1..k -> S] : k \in 0..n}

\* The contents the environment may give the CSV: the empty file, and a header
\* line followed by up to MaxRows lines, all voter rows or the last unparseable.
Contents ==
    {<<>>} \cup {<<Header>> \o s : s \in SeqUpTo(DataLines, MaxRows)}
           \cup {<<Header>> \o s \o <<BadLine>> : s \in SeqUpTo(DataLines, MaxRows - 1)}

MissingFile == [exists |-> FALSE, lines |-> <<>>]
FileWith(c) == [exists |-> TRUE, lines |-> c]
Files == {MissingFile} \cup {FileWith(c) : c \in Contents}

\* The byte content of one line, as a digit of the digest's fold.
LineCode(l) ==
    CASE l.kind = "header" -> 1
      [] l.kind = "bad"    -> 2
      [] OTHER             -> 2 + (l.id - 1) * MaxVal + l.val

HashBase == 3 + MaxId * MaxVal

\* hashlib.sha256 over the chunks in order: an order-sensitive fold of the
\* content whose collision resistance is modelled by the fold being injective.
RECURSIVE HashFold(_, _)
HashFold(h, lines) ==
    IF lines = <<>> THEN h
    ELSE HashFold(h * HashBase + LineCode(Head(lines)), Tail(lines))

\* compute_file_hash with its default chunk_size (1 MiB), which no file of the
\* model exceeds: the whole content is one chunk.
compute_file_hash(lines) == HashFold(1, lines)

\* handle.read(chunk_size): the next chunk_size units of the content, fewer at
\* its end, and what is left to read after them.
ReadChunk(bytes, chunk_size) ==
    SubSeq(bytes, 1, IF chunk_size < Len(bytes) THEN chunk_size ELSE Len(bytes))
AfterChunk(bytes, chunk_size) ==
    SubSeq(bytes, (IF chunk_size < Len(bytes) THEN chunk_size ELSE Len(bytes)) + 1,
           Len(bytes))

\* The read loop with a hasher created anew for each chunk: the digest is that
\* of the last chunk.
RECURSIVE HashChunksFresh(_, _, _)
HashChunksFresh(h, bytes, chunk_size) ==
    IF bytes = <<>> THEN h
    ELSE HashChunksFresh(HashFold(1, ReadChunk(bytes, chunk_size)),
                         AfterChunk(bytes, chunk_size), chunk_size)

\* for chunk in iter(lambda: handle.read(chunk_size), b""): hasher.update(chunk)
RECURSIVE HashChunks(_, _, _)
HashChunks(h, bytes, chunk_size) ==
    IF bytes = <<>> THEN h
    ELSE HashChunks(HashFold(h, ReadChunk(bytes, chunk_size)),
                    AfterChunk(bytes, chunk_size), chunk_size)

\* compute_file_hash(file_path, chunk_size)
compute_file_hash_chunks(lines, chunk_size) == HashChunks(1, lines, chunk_size)

\* count_csv_rows without the clamp.
count_csv_rows_unclamped(lines) == Len(lines) - 1

\* sum(1 for _ in handle) - 1, clamped at 0.
count_csv_rows(lines) ==
    LET row_count == Len(lines) - 1
    IN  IF row_count < 0 THEN 0 ELSE row_count

\* ---------------------------------------------------------------- state
VARIABLES
    file,          \* the CSV at csv_path
    written,       \* the environment rewrote the CSV since the run started
    tablesExist,   \* raw.voters and metadata.voter_ingestion_audit are created
    raw,           \* rows of raw.voters, in insertion order
    ledger,        \* rows of metadata.voter_ingestion_audit, in ingested_at order
    pc,            \* the task the running DAG run executes next, or the run's end state
    run,           \* number of DAG runs started
    payload,       \* the XCom of check_csv_file
    last_hash,     \* what check_for_new_data read from the ledger in this run
    created,       \* create_raw_tables has run in this run
    branch,        \* the task check_for_new_data chose in this run
    staged,        \* staged_voters of this run's load
    inserted,      \* rows this run's load appended to raw.voters (-1: no load yet)
    dbtStarted,    \* trigger_dbt_run started in this run
    failedTask,    \* the task whose failure ended this run
    rawAtStart,    \* raw.voters when this run started
    ledgerAtStart, \* the ledger when this run started
    prev,          \* the previous run's digest and end state, until this run has its own
    rerun,         \* this run hashed the digest of the previous run, which ended in success
    healing,       \* this run hashed the digest of the previous run, which inserted rows
                   \* into raw.voters and failed before its ledger entry was written
    loadedHashes,  \* digests with which an earlier run branched to load_csv_to_raw
    doneRuns,      \* runs that reached pipeline_complete
    doneLoads,     \* runs that reached pipeline_complete through load_csv_to_raw
    streak,        \* the latest runs in a row that ended in success on one digest:
                   \* the digest, their number, and how many of them loaded
    probe          \* a direct call of a helper of utils/helpers.py: its arguments
                   \* and, once it has returned, its results

vars == <<file, written, tablesExist, raw, ledger, pc, run, payload, created, last_hash,
          branch, staged, inserted, dbtStarted, failedTask, rawAtStart, ledgerAtStart,
          prev, rerun, healing, loadedHashes, doneRuns, doneLoads, streak, probe>>

\* The pipeline's own state: everything but the helper call.
pipeline == <<file, written, tablesExist, raw, ledger, pc, run, payload, created,
              last_hash, branch, staged, inserted, dbtStarted, failedTask, rawAtStart,
              ledgerAtStart, prev, rerun, healing, loadedHashes, doneRuns, doneLoads,
              streak>>

db      == <<tablesExist, raw, ledger>>
runAux  == <<created, last_hash, branch, staged, inserted, dbtStarted, failedTask,
             rawAtStart, ledgerAtStart>>
history == <<prev, rerun, healing>>
counts  == <<loadedHashes, doneRuns, doneLoads, streak>>

NoPayload == [file_hash |-> None, row_count |-> 0]
NoPrev    == [file_hash |-> None, done |-> FALSE, lost |-> FALSE]
NoStreak  == [file_hash |-> None, runs |-> 0, loads |-> 0]

\* No helper is being called outside the DAG.
NoProbe ==
    [op |-> "none", a |-> <<>>, b |-> <<>>, chunk_size |-> 1, other_chunk |-> 1,
     exists |-> FALSE, entries |-> <<>>, current_hash |-> None,
     digest_a |-> None, digest_again |-> None, digest_b |-> None,
     row_count |-> 0, last |-> None, is_new |-> FALSE]

Ended == {"idle", "success", "failed"}

\* ------------------------------------------------------------ task graph
\* Downstream with no_new_data >> update_metadata: a skipped run is audited too.
DownstreamAuditSkips(task) ==
    CASE task = "check_csv_file"    -> "create_raw_tables"
      [] task = "create_raw_tables" -> "check_for_new_data"
      [] task = "load_csv_to_raw"   -> "trigger_dbt_run"
      [] task = "trigger_dbt_run"   -> "update_metadata"
      [] task = "update_metadata"   -> "pipeline_complete"
      [] task = "no_new_data"       -> "update_metadata"
      [] OTHER                      -> "success"

\* Downstream with trigger_dbt_run >> finish: update_metadata is left unwired.
DownstreamNoAudit(task) ==
    CASE task = "check_csv_file"    -> "create_raw_tables"
      [] task = "create_raw_tables" -> "check_for_new_data"
      [] task = "load_csv_to_raw"   -> "trigger_dbt_run"
      [] task = "trigger_dbt_run"   -> "pipeline_complete"
      [] task = "update_metadata"   -> "pipeline_complete"
      [] task = "no_new_data"       -> "pipeline_complete"
      [] OTHER                      -> "success"

\* Downstream with load_csv_to_raw >> update_metadata >> trigger_dbt_run >> finish.
DownstreamAuditFirst(task) ==
    CASE task = "check_csv_file"    -> "create_raw_tables"
      [] task = "create_raw_tables" -> "check_for_new_data"
      [] task = "load_csv_to_raw"   -> "update_metadata"
      [] task = "update_metadata"   -> "trigger_dbt_run"
      [] task = "trigger_dbt_run"   -> "pipeline_complete"
      [] task = "no_new_data"       -> "pipeline_complete"
      [] OTHER                      -> "success"

\* Downstream with check_csv_file >> check_for_new_data: create_raw_tables is
\* left unwired.
DownstreamNoSchema(task) ==
    CASE task = "check_csv_file"    -> "check_for_new_data"
      [] task = "create_raw_tables" -> "check_for_new_data"
      [] task = "load_csv_to_raw"   -> "trigger_dbt_run"
      [] task = "trigger_dbt_run"   -> "update_metadata"
      [] task = "update_metadata"   -> "pipeline_complete"
      [] task = "no_new_data"       -> "pipeline_complete"
      [] OTHER                      -> "success"

\* check_csv_file >> create_raw_tables >> check_for_new_data >> [...]
\* load_csv_to_raw >> trigger_dbt_run >> update_metadata >> finish
\* no_new_data >> finish
Downstream(task) ==
    CASE task = "check_csv_file"    -> "create_raw_tables"
      [] task = "create_raw_tables" -> "check_for_new_data"
      [] task = "load_csv_to_raw"   -> "trigger_dbt_run"
      [] task = "trigger_dbt_run"   -> "update_metadata"
      [] task = "update_metadata"   -> "pipeline_complete"
      [] task = "no_new_data"       -> "pipeline_complete"
      [] OTHER                      -> "success"

\* AfterFailure with retries without a limit: the failed task is scheduled again.
AfterFailureRetry(task) == task

\* AfterFailure with create_raw_tables on trigger rule all_done: it runs after a
\* failed check_csv_file as well.
AfterFailureContinue(task) ==
    IF task = "check_csv_file" THEN "create_raw_tables" ELSE "failed"

\* AfterFailure with update_metadata on trigger rule all_done: it runs after a
\* failed load as well.
AfterFailureAllDone(task) ==
    IF task = "load_csv_to_raw" THEN "update_metadata" ELSE "failed"

\* A failed task leaves its downstream tasks upstream_failed (default trigger
\* rule all_success; pipeline_complete is none_failed_min_one_success): nothing
\* else of the run executes and the run is failed.
AfterFailure(task) == "failed"

\* ---------------------------------------------------------------- helpers
Last(s) == s[Len(s)]

\* get_last_processed_hash with ORDER BY ingested_at ASC.
get_last_processed_hash_oldest(exists, entries) ==
    IF ~exists THEN None
    ELSE IF entries = <<>> THEN None
    ELSE Head(entries).file_hash

\* get_last_processed_hash with fetchone()[0] on the result: an empty table
\* gives the empty digest instead of None.
get_last_processed_hash_no_default(exists, entries) ==
    IF ~exists THEN None
    ELSE IF entries = <<>> THEN -1
    ELSE Last(entries).file_hash

\* get_last_processed_hash: None when the metadata table does not exist or has
\* no row, else file_hash of the row with the greatest ingested_at.
get_last_processed_hash(exists, entries) ==
    IF ~exists THEN None
    ELSE IF entries = <<>> THEN None
    ELSE Last(entries).file_hash

\* is_new_data that reports new data whatever the hashes.
is_new_data_always(current_hash, last) == TRUE

\* is_new_data with the comparison inverted.
is_new_data_inverted(current_hash, last) == last # None /\ current_hash = last

is_new_data(current_hash, last) == last = None \/ current_hash # last

\* _branch_on_new_data returning "load_csv_to_raw" on both paths.
branch_on_new_data_load(current_hash, last) == "load_csv_to_raw"

\* _branch_on_new_data's return value.
branch_on_new_data(current_hash, last) ==
    IF is_new_data(current_hash, last) THEN "load_csv_to_raw" ELSE "no_new_data"

\* Readable with ignore_errors: a line that does not parse is let through.
ReadableLenient(f) ==
    /\ f.exists
    /\ Len(f.lines) >= 1
    /\ f.lines[1] = Header

\* read_csv_auto(csv_path, header=TRUE) with the SELECT of the eleven columns:
\* it raises on a missing file, on a file without the header's columns and on
\* a line that does not parse.
Readable(f) ==
    /\ f.exists
    /\ Len(f.lines) >= 1
    /\ f.lines[1] = Header
    /\ \A i \in 2..Len(f.lines) : f.lines[i].kind = "row"

\* CREATE TEMP TABLE staged_voters: every data line, tagged with the XCom's hash.
StagedVoters(f, file_hash) ==
    [i \in 1..(Len(f.lines) - 1) |->
        [id |-> f.lines[i + 1].id, val |-> f.lines[i + 1].val,
         source_file_hash |-> file_hash]]

IdsOf(rows) == {rows[i].id : i \in 1..Len(rows)}

\* incremental_voters with the anti-join on the whole row instead of on id.
IncrementalVotersByRow(stagedRows, rawRows) ==
    LET Absent(r) == \A i \in 1..Len(rawRows) :
                        rawRows[i].id # r.id \/ rawRows[i].val # r.val
    IN  SelectSeq(stagedRows, Absent)

\* CREATE TEMP TABLE incremental_voters: staged rows with NOT EXISTS (rv.id = sv.id).
IncrementalVoters(stagedRows, rawRows) ==
    LET Absent(r) == r.id \notin IdsOf(rawRows)
    IN  SelectSeq(stagedRows, Absent)

\* The load without the anti-join: INSERT INTO raw.voters SELECT * FROM staged_voters.
RawAfterLoadAppendAll(stagedRows, rawRows) == rawRows \o stagedRows

\* The load as an upsert (INSERT OR REPLACE): a staged row replaces the raw row
\* of the same id.
RawAfterLoadUpsert(stagedRows, rawRows) ==
    LET Match(i)  == {j \in 1..Len(stagedRows) : stagedRows[j].id = rawRows[i].id}
        Pick(S)   == CHOOSE j \in S : \A k \in S : k <= j
        updated   == [i \in 1..Len(rawRows) |->
                        IF Match(i) = {} THEN rawRows[i] ELSE stagedRows[Pick(Match(i))]]
        Absent(r) == r.id \notin IdsOf(rawRows)
    IN  updated \o SelectSeq(stagedRows, Absent)

\* if inserted_rows: INSERT INTO raw.voters SELECT * FROM incremental_voters
RawAfterLoad(stagedRows, rawRows) ==
    LET incremental == IncrementalVoters(stagedRows, rawRows)
    IN  IF Len(incremental) > 0 THEN rawRows \o incremental ELSE rawRows

\* SELECT COUNT(*) FROM raw.voters WHERE source_file_hash = ?
CountByHash(rawRows, file_hash) ==
    Cardinality({i \in 1..Len(rawRows) : rawRows[i].source_file_hash = file_hash})

\* MetadataEntry with the COUNT(*) missing its WHERE clause.
MetadataEntryCountAll(rawRows, pl, run_id) ==
    LET inserted_rows == Len(rawRows)
    IN  [file_hash          |-> pl.file_hash,
         file_row_count     |-> pl.row_count,
         inserted_row_count |-> inserted_rows,
         load_status        |-> IF inserted_rows # 0 THEN "success" ELSE "no-op",
         dag_run_id         |-> run_id]

\* The row _update_metadata inserts into the metadata table.
MetadataEntry(rawRows, pl, run_id) ==
    LET inserted_rows == CountByHash(rawRows, pl.file_hash)
    IN  [file_hash          |-> pl.file_hash,
         file_row_count     |-> pl.row_count,
         inserted_row_count |-> inserted_rows,
         load_status        |-> IF inserted_rows # 0 THEN "success" ELSE "no-op",
         dag_run_id         |-> run_id]

\* ------------------------------------------------------------------ Init
Init ==
    /\ file \in Files
    /\ written = FALSE
    /\ tablesExist = FALSE
    /\ raw = <<>>
    /\ ledger = <<>>
    /\ pc = "idle"
    /\ run = 0
    /\ payload = NoPayload
    /\ created = FALSE
    /\ last_hash = None
    /\ branch = "none"
    /\ staged = <<>>
    /\ inserted = -1
    /\ dbtStarted = FALSE
    /\ failedTask = "none"
    /\ rawAtStart = <<>>
    /\ ledgerAtStart = <<>>
    /\ prev = NoPrev
    /\ rerun = FALSE
    /\ healing = FALSE
    /\ loadedHashes = {}
    /\ doneRuns = 0
    /\ doneLoads = 0
    /\ streak = NoStreak
    /\ probe = NoProbe

\* --------------------------------------------------------------- actions
\* The environment rewrites or removes the CSV between two runs; the CSV is taken
\* to be stable from a run's check_csv_file to its load_csv_to_raw.  A run first
\* reads the file in check_csv_file, so the writes since the previous run's load
\* are indistinguishable from a single write just before that read.
WriteFile ==
    /\ pc = "check_csv_file"
    /\ ~written
    /\ written' = TRUE
    /\ \E f \in Files : f # file /\ file' = f
    /\ UNCHANGED <<db, pc, run, payload, runAux, history, counts, probe>>

\* schedule="@daily", max_active_runs=1: the next run starts when none is active.
StartRun ==
    /\ pc \in Ended
    /\ run < MaxRuns
    /\ pc' = "check_csv_file"
    /\ run' = run + 1
    /\ payload' = NoPayload
    /\ created' = FALSE
    /\ last_hash' = None
    /\ branch' = "none"
    /\ staged' = <<>>
    /\ inserted' = -1
    /\ dbtStarted' = FALSE
    /\ failedTask' = "none"
    /\ rawAtStart' = raw
    /\ ledgerAtStart' = ledger
    /\ prev' = [file_hash |-> payload.file_hash, done |-> (pc = "success"),
                lost |-> (pc = "failed" /\ inserted >= 1)]
    /\ rerun' = FALSE
    /\ healing' = FALSE
    /\ loadedHashes' = IF branch = "load_csv_to_raw"
                       THEN loadedHashes \cup {payload.file_hash}
                       ELSE loadedHashes
    /\ streak' = IF pc = "failed" THEN NoStreak ELSE streak
    /\ UNCHANGED <<file, written, db, doneRuns, doneLoads, probe>>

\* The run ends failed at `task`.
Fail(task) ==
    /\ pc' = AfterFailure(task)
    /\ failedTask' = task

\* _resolve_csv_payload
check_csv_file ==
    /\ pc = "check_csv_file"
    /\ IF ~file.exists
       THEN /\ Fail("check_csv_file")
            /\ UNCHANGED <<payload, rerun, healing>>
       ELSE /\ payload' = [file_hash |-> compute_file_hash(file.lines),
                           row_count |-> count_csv_rows(file.lines)]
            /\ rerun' = (prev.done /\ prev.file_hash = payload'.file_hash)
            /\ healing' = (prev.lost /\ prev.file_hash = payload'.file_hash)
            /\ pc' = Downstream("check_csv_file")
            /\ UNCHANGED failedTask
    /\ prev' = NoPrev
    /\ written' = FALSE
    /\ UNCHANGED <<file, db, run, created, last_hash, branch, staged, inserted,
                   dbtStarted, rawAtStart, ledgerAtStart, counts, probe>>

\* _create_tables: the script creates the schemas and tables when they are absent.
create_raw_tables ==
    /\ pc = "create_raw_tables"
    /\ tablesExist' = TRUE
    /\ created' = TRUE
    /\ pc' = Downstream("create_raw_tables")
    /\ UNCHANGED <<file, written, raw, ledger, run, payload, last_hash, branch, staged,
                   inserted, dbtStarted, failedTask, rawAtStart, ledgerAtStart,
                   history, counts, probe>>

\* _branch_on_new_data
check_for_new_data ==
    /\ pc = "check_for_new_data"
    /\ last_hash' = get_last_processed_hash(tablesExist, ledger)
    /\ branch' = branch_on_new_data(payload.file_hash, last_hash')
    /\ pc' = branch'
    /\ UNCHANGED <<file, written, db, run, payload, created, staged, inserted, dbtStarted,
                   failedTask, rawAtStart, ledgerAtStart, history, counts, probe>>

\* EmptyOperator(task_id="no_new_data")
no_new_data ==
    /\ pc = "no_new_data"
    /\ pc' = Downstream("no_new_data")
    /\ UNCHANGED <<file, written, db, run, payload, runAux, history, counts, probe>>

\* _load_csv_to_raw
load_csv_to_raw ==
    /\ pc = "load_csv_to_raw"
    /\ IF ~Readable(file)
       THEN /\ Fail("load_csv_to_raw")
            /\ UNCHANGED <<raw, staged, inserted>>
       ELSE /\ staged' = StagedVoters(file, payload.file_hash)
            /\ raw' = RawAfterLoad(staged', raw)
            /\ inserted' = Len(raw') - Len(raw)
            /\ pc' = Downstream("load_csv_to_raw")
            /\ UNCHANGED failedTask
    /\ UNCHANGED <<file, written, tablesExist, ledger, run, payload, created, last_hash,
                   branch, dbtStarted, rawAtStart, ledgerAtStart, history, counts, probe>>

\* BashOperator(task_id="trigger_dbt_run"): dbt deps, dbt run.
trigger_dbt_run ==
    /\ pc = "trigger_dbt_run"
    /\ dbtStarted' = TRUE
    /\ \/ pc' = Downstream("trigger_dbt_run") /\ UNCHANGED failedTask
       \/ Fail("trigger_dbt_run")
    /\ UNCHANGED <<file, written, db, run, payload, created, last_hash, branch, staged,
                   inserted, rawAtStart, ledgerAtStart, history, counts, probe>>

\* update_metadata as INSERT OR REPLACE keyed by file_hash: the entry replaces
\* the earlier entries of the same digest.
update_metadata_replace ==
    /\ pc = "update_metadata"
    /\ ledger' = LET Other(en) == en.file_hash # payload.file_hash
                 IN  Append(SelectSeq(ledger, Other), MetadataEntry(raw, payload, run))
    /\ pc' = Downstream("update_metadata")
    /\ UNCHANGED <<file, written, tablesExist, raw, run, payload, runAux, history, counts, probe>>

\* update_metadata whose INSERT is not committed.
update_metadata_dry ==
    /\ pc = "update_metadata"
    /\ pc' = Downstream("update_metadata")
    /\ UNCHANGED <<file, written, db, run, payload, runAux, history, counts, probe>>

\* _update_metadata
update_metadata ==
    /\ pc = "update_metadata"
    /\ ledger' = Append(ledger, MetadataEntry(raw, payload, run))
    /\ pc' = Downstream("update_metadata")
    /\ UNCHANGED <<file, written, tablesExist, raw, run, payload, runAux, history, counts, probe>>

\* EmptyOperator(task_id="pipeline_complete")
pipeline_complete ==
    /\ pc = "pipeline_complete"
    /\ pc' = Downstream("pipeline_complete")
    /\ doneRuns' = doneRuns + 1
    /\ doneLoads' = IF branch = "load_csv_to_raw" THEN doneLoads + 1 ELSE doneLoads
    /\ streak' = LET loaded == IF branch = "load_csv_to_raw" THEN 1 ELSE 0
                 IN  IF streak.file_hash = payload.file_hash
                     THEN [streak EXCEPT !.runs = @ + 1, !.loads = @ + loaded]
                     ELSE [file_hash |-> payload.file_hash, runs |-> 1, loads |-> loaded]
    /\ UNCHANGED <<file, written, db, run, payload, runAux, history, loadedHashes, probe>>

\* A task that talks to DuckDB raises when the database file is locked or
\* unreachable; the statement that raised changed nothing.
StoreUnavailable ==
    /\ pc \in {"create_raw_tables", "check_for_new_data", "load_csv_to_raw",
               "update_metadata"}
    /\ Fail(pc)
    /\ UNCHANGED <<file, written, db, run, payload, created, last_hash, branch, staged,
                   inserted, dbtStarted, rawAtStart, ledgerAtStart, history, counts, probe>>

Next ==
    \/ WriteFile
    \/ StartRun
    \/ check_csv_file
    \/ create_raw_tables
    \/ check_for_new_data
    \/ no_new_data
    \/ load_csv_to_raw
    \/ trigger_dbt_run
    \/ update_metadata
    \/ pipeline_complete
    \/ StoreUnavailable

Spec == Init /\ [][Next]_vars

\* ---------------------------------------------------- the scheduler is fair
\* The executor runs every task instance whose upstream tasks are done, and a
\* task callable returns or raises: each task that is ready is eventually run.
\* Nothing obliges the environment to write the file, to trigger a run or to be
\* unavailable.
TaskFairness ==
    /\ WF_vars(check_csv_file)
    /\ WF_vars(create_raw_tables)
    /\ WF_vars(check_for_new_data)
    /\ WF_vars(no_new_data)
    /\ WF_vars(load_csv_to_raw)
    /\ WF_vars(trigger_dbt_run)
    /\ WF_vars(update_metadata)
    /\ WF_vars(pipeline_complete)

SpecFair == Init /\ [][Next]_vars /\ TaskFairness

\* ------------------------------------- the CSV rewritten while a run is active
\* The environment rewrites or removes the CSV after check_csv_file has hashed
\* it and before load_csv_to_raw reads it: both tasks open CSV_PATH themselves.
\* The new content is an export of one voter.
RewriteFiles ==
    {FileWith(<<Header, [kind |-> "row", id |-> MaxId, val |-> 1]>>)}

RewriteDuringRun ==
    /\ pc = "load_csv_to_raw"
    /\ \E f \in RewriteFiles : f # file /\ file' = f
    /\ UNCHANGED <<written, db, pc, run, payload, runAux, history, counts, probe>>

NextRewrite ==
    \/ Next
    \/ RewriteDuringRun

SpecRewrite == Init /\ [][NextRewrite]_vars

\* ------------------------------------------------- the helpers on their own
\* The helpers of utils/helpers.py called directly, on arguments drawn from the
\* files and ledgers of the model; the DAG does not run.
LedgerRow(c, run_id) ==
    MetadataEntry(<<>>, [file_hash |-> compute_file_hash(c),
                         row_count |-> count_csv_rows(c)], run_id)

\* Metadata tables of at most MaxEntries rows in the order of ingested_at; the
\* DAG appends a row only for a digest that is not the latest one.
LedgerTables ==
    UNION {{[i \in 1..k |-> LedgerRow(cs[i], i)] : cs \in [1..k -> Contents \ {<<>>}]}
           : k \in 0..MaxEntries}

HashCalls ==
    {[NoProbe EXCEPT !.op = "compute_file_hash", !.a = a, !.b = b,
                     !.chunk_size = n, !.other_chunk = m]
        : a \in Contents, b \in Contents, n \in 1..MaxChunk, m \in 1..MaxChunk}

CountCalls ==
    {[NoProbe EXCEPT !.op = "count_csv_rows", !.a = a] : a \in Contents}

DetectorCalls ==
    {[NoProbe EXCEPT !.op = "is_new_data", !.exists = e, !.entries = t,
                     !.current_hash = compute_file_hash(c)]
        : e \in BOOLEAN, t \in LedgerTables, c \in Contents}

InitHelpers ==
    /\ file = MissingFile
    /\ written = FALSE
    /\ tablesExist = FALSE
    /\ raw = <<>>
    /\ ledger = <<>>
    /\ pc = "idle"
    /\ run = 0
    /\ payload = NoPayload
    /\ created = FALSE
    /\ last_hash = None
    /\ branch = "none"
    /\ staged = <<>>
    /\ inserted = -1
    /\ dbtStarted = FALSE
    /\ failedTask = "none"
    /\ rawAtStart = <<>>
    /\ ledgerAtStart = <<>>
    /\ prev = NoPrev
    /\ rerun = FALSE
    /\ healing = FALSE
    /\ loadedHashes = {}
    /\ doneRuns = 0
    /\ doneLoads = 0
    /\ streak = NoStreak
    /\ probe \in HashCalls \cup CountCalls
                 \cup {d \in DetectorCalls :
                         /\ ~d.exists => d.entries = <<>>
                         /\ \A i \in 1..(Len(d.entries) - 1) :
                               d.entries[i].file_hash # d.entries[i + 1].file_hash}

\* compute_file_hash(a, chunk_size), once more with another chunk size, and
\* compute_file_hash(b, chunk_size).
call_compute_file_hash ==
    /\ probe.op = "compute_file_hash"
    /\ probe' = [probe EXCEPT
                    !.op = "hashed",
                    !.digest_a = compute_file_hash_chunks(probe.a, probe.chunk_size),
                    !.digest_again = compute_file_hash_chunks(probe.a, probe.other_chunk),
                    !.digest_b = compute_file_hash_chunks(probe.b, probe.chunk_size)]
    /\ UNCHANGED pipeline

\* count_csv_rows(a)
call_count_csv_rows ==
    /\ probe.op = "count_csv_rows"
    /\ probe' = [probe EXCEPT !.op = "counted", !.row_count = count_csv_rows(probe.a)]
    /\ UNCHANGED pipeline

\* last_hash = get_last_processed_hash(...); is_new_data(file_hash, last_hash)
call_is_new_data ==
    /\ probe.op = "is_new_data"
    /\ LET last == get_last_processed_hash(probe.exists, probe.entries)
       IN  probe' = [probe EXCEPT !.op = "detected", !.last = last,
                                  !.is_new = is_new_data(probe.current_hash, last)]
    /\ UNCHANGED pipeline

NextHelpers ==
    \/ call_compute_file_hash
    \/ call_count_csv_rows
    \/ call_is_new_data

SpecHelpers == InitHelpers /\ [][NextHelpers]_vars

\* ---------------------------------------------------------------- claims
IsPrefix(s, t) == Len(s) <= Len(t) /\ SubSeq(t, 1, Len(s)) = s

\* Ids of the data lines of a readable file.
FileIds(f) == {f.lines[i].id : i \in 2..Len(f.lines)}

\* Number of positions of the sequence rows that hold the row r.
Occurrences(rows, r) == Cardinality({i \in 1..Len(rows) : rows[i] = r})

LoadBranch == branch = "load_csv_to_raw"
SkipBranch == branch = "no_new_data"

\* C1: in every reachable state each id occurs in at most one row of raw.voters.
C1_NoDuplicateIds ==
    \A i, j \in 1..Len(raw) : raw[i].id = raw[j].id => i = j

C4_RecordedCountIsAppended ==
    (pc = "pipeline_complete" /\ LoadBranch) =>
        /\ Len(ledger) = Len(ledgerAtStart) + 1
        /\ Last(ledger).inserted_row_count = inserted
        /\ Last(ledger).load_status = (IF inserted >= 1 THEN "success" ELSE "no-op")

\* C5: when a ledger entry has just been appended, its inserted_row_count is the
\* number of raw.voters rows whose source_file_hash is the entry's file_hash.
C5_CountMatchesRawAtWrite ==
    (pc = "pipeline_complete" /\ Len(ledger) > Len(ledgerAtStart)) =>
        Last(ledger).inserted_row_count =
            Cardinality({i \in 1..Len(raw) :
                            raw[i].source_file_hash = Last(ledger).file_hash})

C5_Witness ==
    /\ pc = "pipeline_complete"
    /\ Len(ledger) > Len(ledgerAtStart)
    /\ Last(ledger).inserted_row_count >= 1
    /\ Len(raw) > Last(ledger).inserted_row_count

\* C6: a run whose load fails ends failed with raw.voters and the ledger as they
\* were when the run started, and the next read of the last processed hash
\* returns what the failed run read.
C6_LoaderFailureClean ==
    failedTask = "load_csv_to_raw" =>
        /\ pc = "failed"
        /\ raw = rawAtStart
        /\ ledger = ledgerAtStart
        /\ (IF ledger = <<>> THEN None ELSE Last(ledger).file_hash) = last_hash

C6_Witness ==
    /\ failedTask = "load_csv_to_raw"
    /\ ~Readable(file)
    /\ raw # <<>>
    /\ ledger # <<>>

\* C7 as stated: trigger_dbt_run starts only after the run's ledger entry is written.
C7_DbtAfterLedger ==
    dbtStarted => Len(ledger) = Len(ledgerAtStart) + 1

\* C7 amended: trigger_dbt_run starts only after the run's load has completed and
\* before the run's ledger entry is written; the entry is written only after
\* trigger_dbt_run has succeeded, and a skipped run starts no dbt run.
C7_LedgerAfterDbt ==
    /\ dbtStarted => (LoadBranch /\ inserted >= 0)
    /\ (pc = "trigger_dbt_run" \/ pc = "update_metadata") => ledger = ledgerAtStart
    /\ ledger # ledgerAtStart => (dbtStarted /\ failedTask = "none")

C7_Witness == pc = "update_metadata" /\ dbtStarted /\ ledger = ledgerAtStart

\* C8 as stated: a digest with which an earlier run took the load branch never
\* takes the load branch again.
C8_DigestLoadedOnce ==
    ~(LoadBranch /\ payload.file_hash \in loadedHashes)

\* C8 amended: a run takes the load branch exactly when its digest differs from
\* the digest of the most recent ledger entry or the ledger is empty; a skipped
\* run presents the most recent entry's digest, which an earlier run loaded. A
\* digest is loaded again once another digest has been recorded after it, or
\* when the run that loaded it failed before writing its entry.
C8_LoadIffNotMostRecent ==
    /\ LoadBranch =>
          (ledgerAtStart = <<>> \/ Last(ledgerAtStart).file_hash # payload.file_hash)
    /\ SkipBranch =>
          /\ ledgerAtStart # <<>>
          /\ Last(ledgerAtStart).file_hash = payload.file_hash
          /\ payload.file_hash \in loadedHashes

C8_Witness ==
    /\ LoadBranch
    /\ payload.file_hash \in loadedHashes
    /\ \E i \in 1..Len(ledgerAtStart) : ledgerAtStart[i].file_hash = payload.file_hash

\* C9: after a successful load raw.voters is what it was, followed by exactly the
\* staged rows whose id was absent, so its ids are the earlier ids united with
\* the file's ids, the number of rows appended is the number of staged rows with
\* an absent id, and nothing is written when there is none.
C9_SetDifferenceMerge ==
    inserted >= 0 =>
        LET absent   == {i \in 1..Len(staged) : staged[i].id \notin IdsOf(rawAtStart)}
            appended == SubSeq(raw, Len(rawAtStart) + 1, Len(raw))
        IN  /\ IdsOf(staged) = FileIds(file)
            /\ IsPrefix(rawAtStart, raw)
            /\ Len(raw) = Len(rawAtStart) + inserted
            /\ inserted = Cardinality(absent)
            /\ IdsOf(raw) = IdsOf(rawAtStart) \cup FileIds(file)
            /\ \A i \in 1..Len(staged) :
                  Occurrences(appended, staged[i]) =
                      (IF i \in absent THEN Occurrences(staged, staged[i]) ELSE 0)
            /\ \A k \in 1..Len(appended) : \E i \in absent : staged[i] = appended[k]
            /\ absent = {} => raw = rawAtStart

C9_Witness ==
    /\ inserted >= 1
    /\ Len(staged) > inserted
    /\ rawAtStart # <<>>

\* C10: no step updates or removes a row of raw.voters, also when the file carries
\* an id of raw.voters with other field values; a load of a file whose ids are
\* all in raw.voters appends 0 rows and leaves raw.voters unchanged.
C10_InsertOnly ==
    [][/\ IsPrefix(raw, raw')
       /\ (pc = "load_csv_to_raw" /\ pc' = "trigger_dbt_run"
              /\ FileIds(file) \subseteq IdsOf(raw))
            => (raw' = raw /\ inserted' = 0)]_vars

C10_Witness ==
    /\ pc = "trigger_dbt_run"
    /\ inserted = 0
    /\ \E i \in 1..Len(staged) : \E j \in 1..Len(raw) :
          staged[i].id = raw[j].id /\ staged[i].val # raw[j].val

\* C11: a run whose digest is the digest of the most recent ledger entry is
\* skipped: its loader does not run and raw.voters stays as it was when the
\* run started.
C11_SkipLeavesRawUntouched ==
    (branch # "none" /\ ledgerAtStart # <<>>
        /\ Last(ledgerAtStart).file_hash = payload.file_hash) =>
        /\ SkipBranch
        /\ inserted = -1
        /\ staged = <<>>
        /\ failedTask # "load_csv_to_raw"
        /\ raw = rawAtStart

C11_Witness ==
    pc = "success" /\ SkipBranch /\ ~rerun /\ raw # <<>>

\* C12: when the CSV does not exist check_csv_file raises, the run ends failed
\* and no later task of the run executes: no table is created, the ledger is not
\* read, nothing is loaded, no dbt run starts and no ledger entry is written.
C12_MissingFileFails ==
    /\ [](failedTask = "check_csv_file" =>
            /\ pc = "failed"
            /\ ~file.exists
            /\ payload = NoPayload
            /\ (run = 1 => ~tablesExist)
            /\ branch = "none"
            /\ inserted = -1
            /\ ~dbtStarted
            /\ raw = rawAtStart
            /\ ledger = ledgerAtStart)
    /\ [][(pc = "check_csv_file" /\ ~file.exists /\ pc' # pc)
            => (pc' = "failed" /\ failedTask' = "check_csv_file")]_vars

C12_Witness ==
    failedTask = "check_csv_file" /\ raw # <<>> /\ ledger # <<>>

\* The file exists and read_csv_auto cannot stage it: it has no header line or
\* a line that does not parse.
Malformed(f) ==
    /\ f.exists
    /\ \/ Len(f.lines) = 0
       \/ \E i \in 1..Len(f.lines) : f.lines[i].kind = "bad"

\* C13: the load of a malformed file fails and leaves raw.voters as it was: no
\* line of the file, well-formed or not, is appended.
C13_MalformedIsAtomic ==
    [][(pc = "load_csv_to_raw" /\ Malformed(file))
          => (pc' = "failed" /\ raw' = raw /\ staged' = staged /\ ledger' = ledger)]_vars

C13_Witness ==
    /\ failedTask = "load_csv_to_raw"
    /\ Malformed(file)
    /\ \E i \in 1..Len(file.lines) :
          file.lines[i].kind = "row" /\ file.lines[i].id \notin IdsOf(raw)

\* C15: every step leaves the ledger a prefix of its next value, and a run
\* appends at most one entry.
C15_LedgerAppendOnly ==
    [][/\ IsPrefix(ledger, ledger')
       /\ ledger' # ledger => (Len(ledger') = Len(ledger) + 1 /\ ledger = ledgerAtStart)]_vars

C15_Witness ==
    pc = "pipeline_complete" /\ Len(ledger) >= 3 /\ Len(ledgerAtStart) = Len(ledger) - 1

\* C17: the run takes the load branch exactly when the last processed hash it
\* read is None or differs from its digest, and the skip branch exactly when
\* the two are equal.
C17_ChangeDecision ==
    /\ branch # "none" =>
          LET isNew == last_hash = None \/ payload.file_hash # last_hash
          IN  /\ LoadBranch <=> isNew
              /\ SkipBranch <=> ~isNew
    /\ pc = "load_csv_to_raw" => LoadBranch
    /\ pc = "no_new_data" => SkipBranch
    /\ (inserted >= 0 \/ dbtStarted) => LoadBranch

C17_Witness ==
    pc = "no_new_data" /\ last_hash # None /\ last_hash = payload.file_hash

\* C14: a run on the digest of the previous run, which inserted rows into
\* raw.voters and failed before its ledger entry was written, takes the load
\* branch, appends no row (raw.voters stays as it was), and when it completes
\* it has appended one ledger entry, whose digest is the file's digest.
C14_SelfHealing ==
    healing =>
        /\ branch # "none" => LoadBranch
        /\ raw = rawAtStart
        /\ inserted \in {-1, 0}
        /\ pc = "success" =>
              /\ inserted = 0
              /\ Len(ledger) = Len(ledgerAtStart) + 1
              /\ Last(ledger).file_hash = payload.file_hash
              /\ \A i \in 1..Len(staged) : staged[i].source_file_hash = Last(ledger).file_hash

C14_Witness == healing /\ pc = "success" /\ ledgerAtStart # <<>>

\* C20: in every run create_raw_tables runs after check_csv_file and before the
\* ledger is read and before the load, on the skip branch and on the load
\* branch; when the tables exist it leaves their rows as they are.
C20_SchemaEnsured ==
    /\ [](/\ created => (payload # NoPayload /\ tablesExist)
          /\ (last_hash # None \/ branch # "none") => created
          /\ (inserted >= 0 \/ failedTask = "load_csv_to_raw") => created
          /\ pc \in {"check_for_new_data", "no_new_data", "load_csv_to_raw",
                     "trigger_dbt_run", "update_metadata", "pipeline_complete",
                     "success"} => created)
    /\ [][(pc = "create_raw_tables" /\ pc' = "check_for_new_data")
            => (tablesExist' /\ raw' = raw /\ ledger' = ledger)]_vars

C20_Witness ==
    pc = "no_new_data" /\ created /\ run >= 2 /\ raw # <<>> /\ ledger # <<>>

\* C16: when the metadata table does not exist or has no row,
\* get_last_processed_hash returns None and is_new_data is true whatever the
\* current digest; otherwise get_last_processed_hash returns the digest of the
\* row appended last.
C16_FirstLoad ==
    probe.op = "detected" =>
        /\ (~probe.exists \/ probe.entries = <<>>) => (probe.last = None /\ probe.is_new)
        /\ (probe.exists /\ probe.entries # <<>>) =>
              /\ probe.last = probe.entries[Len(probe.entries)].file_hash
              /\ probe.is_new <=> probe.current_hash # probe.last

C16_Witness ==
    probe.op = "detected" /\ probe.exists /\ probe.entries = <<>> /\ probe.is_new

\* C18: two calls of compute_file_hash on one content return the same digest,
\* whatever their chunk sizes; the digests of two contents are equal exactly
\* when the contents are equal, so a reordering of the lines changes the digest.
C18_FingerprintDeterminism ==
    probe.op = "hashed" =>
        /\ probe.digest_a = probe.digest_again
        /\ (probe.digest_a = probe.digest_b) <=> (probe.a = probe.b)

\* The two contents hold the same lines in another order, and the two calls on
\* the first read it in a different number of chunks.
C18_Witness ==
    /\ probe.op = "hashed"
    /\ Len(probe.a) = 3 /\ Len(probe.b) = 3
    /\ probe.a # probe.b
    /\ probe.a[2] = probe.b[3] /\ probe.a[3] = probe.b[2]
    /\ probe.chunk_size = 1 /\ probe.other_chunk = 2

\* C19: count_csv_rows of a file of n lines is n - 1 when n >= 1 and 0 when
\* n = 0; it is never negative.
C19_RowCount ==
    probe.op = "counted" =>
        /\ probe.row_count >= 0
        /\ Len(probe.a) >= 1 => probe.row_count = Len(probe.a) - 1
        /\ Len(probe.a) = 0 => probe.row_count = 0

C19_Witness == probe.op = "counted" /\ probe.a = <<>> /\ probe.row_count = 0

\* C23: in every reachable state, every ledger entry's inserted_row_count is
\* the number of rows now in raw.voters whose source_file_hash is the entry's
\* digest.
C23_AuditStaysConsistent ==
    \A i \in 1..Len(ledger) :
        ledger[i].inserted_row_count = CountByHash(raw, ledger[i].file_hash)

\* C24: no two ledger entries next to each other in the order of ingested_at
\* carry the same digest.
C24_AdjacentDigestsDiffer ==
    \A i \in 1..(Len(ledger) - 1) : ledger[i].file_hash # ledger[i + 1].file_hash

\* Three entries, the digest of the first back in the third.
C24_Witness ==
    Len(ledger) = 3 /\ ledger[1].file_hash = ledger[3].file_hash

\* C22: the digest, the file row count and the rows the loader staged in one
\* run describe one file content: the staged rows are the rows of the content
\* whose digest and row count check_csv_file returned.
C22_SnapshotConsistent ==
    inserted >= 0 =>
        \E c \in Contents :
            /\ payload.file_hash = compute_file_hash(c)
            /\ payload.row_count = count_csv_rows(c)
            /\ staged = StagedVoters(FileWith(c), payload.file_hash)

\* C21: under fair scheduling of the tasks every run ends in success
\* (pipeline_complete ran) or in failed, and stays there until the next run
\* starts; a run ends in success only if no task of it failed and exactly one
\* of no_new_data and the load chain ran.
C21_RunTerminates ==
    /\ (pc \notin Ended) ~> (pc \in {"success", "failed"})
    /\ [](pc = "success" =>
            /\ failedTask = "none"
            /\ SkipBranch \/ LoadBranch
            /\ SkipBranch => (inserted = -1 /\ ~dbtStarted /\ ledger = ledgerAtStart)
            /\ LoadBranch => (inserted >= 0 /\ dbtStarted
                                /\ Len(ledger) = Len(ledgerAtStart) + 1))
    /\ [](pc = "failed" => failedTask # "none")
    /\ [][(pc \in {"success", "failed"}) => (pc' = pc \/ pc' = "check_csv_file")]_vars

\* A run done through no_new_data after a run done through load_csv_to_raw.
C21_Witness == pc = "success" /\ SkipBranch /\ doneLoads >= 1 /\ doneRuns >= 2

\* The run in progress is on the digest of the runs before it, which ended in
\* success one after the other.
Continuing ==
    pc \notin Ended /\ streak.runs >= 1 /\ payload.file_hash = streak.file_hash

\* C25: among runs in a row that end in success on one digest at most one takes
\* the load branch; a run that follows them on the same digest takes the skip
\* branch if it branches, never changes raw.voters, and under fair scheduling
\* ends in success through no_new_data unless a task of it fails.
C25_Stabilises ==
    /\ [](streak.loads <= 1)
    /\ [](Continuing =>
            /\ branch # "none" => SkipBranch
            /\ inserted = -1
            /\ raw = rawAtStart)
    /\ [][Continuing => raw' = raw]_vars
    /\ Continuing ~> (pc = "failed" \/ (pc = "success" /\ SkipBranch /\ raw = rawAtStart))

\* Three runs in a row on one digest: the first loaded, the third is skipping.
C25_Witness ==
    Continuing /\ pc = "no_new_data" /\ streak.runs = 2 /\ streak.loads = 1 /\ raw # <<>>

====
